---- MODULE Spec2Model ----
(***************************************************************************)
(* Model of udhos/otelconfig, package oteltrace: TraceStart and its        *)
(* helpers (createExporter, tracerProvider, hasServiceEnvVar,              *)
(* tracePropagation) and the shutdown closure TraceStart returns.          *)
(*                                                                         *)
(* The repository holds two implementations of the package:                *)
(*   - the one with TraceOptions (src/unnamed/part_000), and               *)
(*   - src/oteltrace/trace.go, whose TraceStart takes (defaultService,     *)
(*     debug).                                                             *)
(* A process links exactly one of them; the variable impl says which.      *)
(* Definitions modelling src/oteltrace/trace.go carry the suffix _tracego. *)
(*                                                                         *)
(* Strings the code inspects are sequences of chunks: a chunk is a piece   *)
(* of text the code never looks inside ("service.name", "base", ...), or a *)
(* single character it does look for (",", "=", " ", "/").                 *)
(***************************************************************************)
EXTENDS Integers, Sequences, FiniteSets, TLC

VARIABLES
    impl,        \* which implementation of package oteltrace the process links
    env,         \* the process environment: the variables the package reads
    process,     \* "running", or "fatal" after log.Fatalf
    globalTP,    \* otel.GetTracerProvider(): "default", "noop" or a provider id
    globalProp,  \* otel.GetTextMapPropagator(): the set of its member formats
    exporters,   \* every span exporter constructed so far, in order
    providers,   \* every SDK tracer provider constructed so far; its index is its id
    calls,       \* what each TraceStart call was given and returned
    closures,    \* for each call, the state of the closure it returned
    propSets,    \* how often otel.SetTextMapPropagator was called
    pc,          \* "idle", or "clean" while a shutdown closure is executing
    running,     \* the call whose closure is executing (0 when idle)
    elapsed      \* seconds since the executing closure was invoked

vars == <<impl, env, process, globalTP, globalProp, exporters, providers,
          calls, closures, propSets, pc, running, elapsed>>

---------------------------------------------------------------------------
\* Bounds of the model

MaxStarts == 2    \* TraceStart calls per process
MaxPathLen == 3   \* chunks in the path of the endpoint override
MaxSvcLen == 2    \* chunks in OTEL_SERVICE_NAME
MaxAttrLen == 4   \* chunks in OTEL_RESOURCE_ATTRIBUTES
MaxPropLen == 2   \* comma-separated names in OTEL_PROPAGATORS
ClockCap == 7     \* the clock of an executing closure stops here

\* Program constants

ShutdownTimeout == 5

lib == "github.com/udhos/otelconfig"

SchemaURL == "https://opentelemetry.io/schemas/1.4.0"

\* a nil error
NoError == [kind |-> "none", text |-> ""]

\* a nil tracesdk.SpanExporter
NilExporter == [kind |-> "nil", endpoint |-> <<>>]

\* references to tracer providers: the initial global one, a no-op one, the
\* SDK provider providers[id], and nil
DefaultTP == [kind |-> "default", id |-> 0]

NoopTP == [kind |-> "noop", id |-> 0]

NilTP == [kind |-> "nil", id |-> 0]

SdkTP(id) == [kind |-> "sdk", id |-> id]

\* a nil trace.Tracer
NilTracer == [provider |-> NilTP, name |-> ""]

---------------------------------------------------------------------------
\* Strings as sequences of chunks

SeqsUpTo(S, n) == UNION {[1..k -> S] : k \in 0..n}

RECURSIVE SplitOn(_, _)
\* strings.Split-like: the fields of s between separators, empty ones included
SplitOn(s, sep) ==
    IF s = <<>> THEN << <<>> >>
    ELSE LET rest == SplitOn(Tail(s), sep)
         IN IF Head(s) = sep
            THEN << <<>> >> \o rest
            ELSE << <<Head(s)>> \o Head(rest) >> \o Tail(rest)

NonEmptyFields(fs) == SelectSeq(fs, LAMBDA f : f # <<>>)

\* strings.FieldsFunc(s, func(c) { return c == sep })
FieldsFunc(s, sep) == NonEmptyFields(SplitOn(s, sep))

RECURSIVE TrimLeft(_, _)
TrimLeft(s, c) ==
    IF s # <<>> /\ Head(s) = c THEN TrimLeft(Tail(s), c) ELSE s

RECURSIVE TrimRight(_, _)
TrimRight(s, c) ==
    IF s # <<>> /\ s[Len(s)] = c THEN TrimRight(SubSeq(s, 1, Len(s) - 1), c) ELSE s

\* strings.TrimSpace
TrimSpace(s) == TrimRight(TrimLeft(s, " "), " ")

\* strings.Cut(f, "="): the text before the first "=", the whole of f without one
CutKey(f) == Head(SplitOn(f, "="))

---------------------------------------------------------------------------
\* The values of the environment

RecognizedTokens == {"", "grpc", "http", "jaeger", "stdout"}

UnrecognizedTokens == {"zipkin", "GRPC"}

Tokens == RecognizedTokens \cup UnrecognizedTokens

Host == "http://jaeger-collector:14268"

BadEscape == "%zz"

PathChunks == {"/", "base", BadEscape}

\* an endpoint override: empty, or a host followed by a path that is empty
\* or starts with a slash
Endpoints ==
    {<<>>} \cup
    {<<Host>> \o p : p \in {q \in SeqsUpTo(PathChunks, MaxPathLen) :
                               q = <<>> \/ Head(q) = "/"}}

SvcNames == SeqsUpTo({" ", "x"}, MaxSvcLen)

ResourceAttrs == SeqsUpTo({"service.name", "=", ",", "x"}, MaxAttrLen)

\* a variable that is not in the environment (os.LookupEnv reports false)
Unset == <<"(unset)">>

PropNames == {"tracecontext", "baggage", "b3multi", "none", "bogus"}

\* OTEL_PROPAGATORS: unset, or its value already split at the commas
PropLists == {Unset} \cup {l \in SeqsUpTo(PropNames, MaxPropLen) : l # <<>>}

Impls == {"part_000", "trace.go"}

---------------------------------------------------------------------------
\* net/url as createExporter uses it

\* url.Parse fails on a malformed percent escape in the path
urlParseOk(u) == \A i \in 1..Len(u) : u[i] # BadEscape

RECURSIVE JoinSegments(_)
\* the segments of a cleaned path, each behind one slash
JoinSegments(segs) ==
    IF segs = <<>> THEN <<>>
    ELSE <<"/">> \o Head(segs) \o JoinSegments(Tail(segs))

\* the path "/api/traces"
ApiTraces == <<"/", "api", "/", "traces">>

\* url.JoinPath(base, elem) for a base that parses: the host, then the path
\* path.Join makes of base's path and elem (empty segments dropped)
urlJoinPath(base, elem) ==
    <<Head(base)>> \o
        JoinSegments(FieldsFunc(Tail(base), "/") \o FieldsFunc(elem, "/"))

\* the collector endpoint jaeger.WithCollectorEndpoint() uses without options
DefaultJaegerEndpoint == <<"jaeger-builtin-default">>

\* the endpoint the OTLP clients resolve by themselves from the environment
AmbientEndpoint == <<"otlp-client-ambient">>

NoEndpoint == <<>>

---------------------------------------------------------------------------
\* createExporter

\* createExporter returning a stdout exporter next to the error
createExporter_substitute(exporter, otelEndpoint) ==
    CASE exporter = "jaeger" ->
            IF otelEndpoint = <<>>
            THEN [err |-> NoError,
                  exp |-> [kind |-> "jaeger", endpoint |-> DefaultJaegerEndpoint]]
            ELSE IF ~urlParseOk(otelEndpoint)
            THEN [err |-> [kind |-> "url", text |-> BadEscape],
                  exp |-> [kind |-> "stdout", endpoint |-> NoEndpoint]]
            ELSE [err |-> NoError,
                  exp |-> [kind |-> "jaeger",
                           endpoint |-> urlJoinPath(otelEndpoint, ApiTraces)]]
      [] exporter \in {"", "grpc"} ->
            [err |-> NoError,
             exp |-> [kind |-> "otlp-grpc", endpoint |-> AmbientEndpoint]]
      [] exporter = "http" ->
            [err |-> NoError,
             exp |-> [kind |-> "otlp-http", endpoint |-> AmbientEndpoint]]
      [] exporter = "stdout" ->
            [err |-> NoError, exp |-> [kind |-> "stdout", endpoint |-> NoEndpoint]]
      [] OTHER ->
            [err |-> [kind |-> "unrecognized exporter type", text |-> exporter],
             exp |-> [kind |-> "stdout", endpoint |-> NoEndpoint]]

\* createExporter with a default case: an unknown token gets the stdout exporter
createExporter_defaultStdout(exporter, otelEndpoint) ==
    CASE exporter = "jaeger" ->
            IF otelEndpoint = <<>>
            THEN [err |-> NoError,
                  exp |-> [kind |-> "jaeger", endpoint |-> DefaultJaegerEndpoint]]
            ELSE IF ~urlParseOk(otelEndpoint)
            THEN [err |-> [kind |-> "url", text |-> BadEscape], exp |-> NilExporter]
            ELSE [err |-> NoError,
                  exp |-> [kind |-> "jaeger",
                           endpoint |-> urlJoinPath(otelEndpoint, ApiTraces)]]
      [] exporter \in {"", "grpc"} ->
            [err |-> NoError,
             exp |-> [kind |-> "otlp-grpc", endpoint |-> AmbientEndpoint]]
      [] exporter = "http" ->
            [err |-> NoError,
             exp |-> [kind |-> "otlp-http", endpoint |-> AmbientEndpoint]]
      [] OTHER ->
            [err |-> NoError, exp |-> [kind |-> "stdout", endpoint |-> NoEndpoint]]

createExporter(exporter, otelEndpoint) ==
    CASE exporter = "jaeger" ->
            IF otelEndpoint = <<>>
            THEN [err |-> NoError,
                  exp |-> [kind |-> "jaeger", endpoint |-> DefaultJaegerEndpoint]]
            ELSE IF ~urlParseOk(otelEndpoint)
            THEN [err |-> [kind |-> "url", text |-> BadEscape], exp |-> NilExporter]
            ELSE [err |-> NoError,
                  exp |-> [kind |-> "jaeger",
                           endpoint |-> urlJoinPath(otelEndpoint, ApiTraces)]]
      [] exporter \in {"", "grpc"} ->
            [err |-> NoError,
             exp |-> [kind |-> "otlp-grpc", endpoint |-> AmbientEndpoint]]
      [] exporter = "http" ->
            [err |-> NoError,
             exp |-> [kind |-> "otlp-http", endpoint |-> AmbientEndpoint]]
      [] exporter = "stdout" ->
            [err |-> NoError, exp |-> [kind |-> "stdout", endpoint |-> NoEndpoint]]
      [] OTHER ->
            [err |-> [kind |-> "unrecognized exporter type", text |-> exporter],
             exp |-> NilExporter]

createExporter_tracego(exporter) ==
    CASE exporter = "jaeger" ->
            [err |-> NoError,
             exp |-> [kind |-> "jaeger", endpoint |-> DefaultJaegerEndpoint]]
      [] exporter = "grpc" ->
            [err |-> NoError,
             exp |-> [kind |-> "otlp-grpc", endpoint |-> AmbientEndpoint]]
      [] exporter = "http" ->
            [err |-> NoError,
             exp |-> [kind |-> "otlp-http", endpoint |-> AmbientEndpoint]]
      [] exporter = "stdout" ->
            [err |-> NoError, exp |-> [kind |-> "stdout", endpoint |-> NoEndpoint]]
      [] OTHER ->
            [err |-> [kind |-> "unrecognized exporter type", text |-> exporter],
             exp |-> NilExporter]

---------------------------------------------------------------------------
\* hasServiceEnvVar and tracerProvider

getEnv(key) == env[key]

ServiceNameKey == <<"service.name">>

\* hasServiceEnvVar comparing OTEL_SERVICE_NAME without strings.TrimSpace
hasServiceEnvVar_noTrim ==
    \/ getEnv("OTEL_SERVICE_NAME") # <<>>
    \/ LET fields == FieldsFunc(getEnv("OTEL_RESOURCE_ATTRIBUTES"), ",")
       IN \E i \in 1..Len(fields) : CutKey(fields[i]) = ServiceNameKey

hasServiceEnvVar ==
    \/ TrimSpace(getEnv("OTEL_SERVICE_NAME")) # <<>>
    \/ LET fields == FieldsFunc(getEnv("OTEL_RESOURCE_ATTRIBUTES"), ",")
       IN \E i \in 1..Len(fields) : CutKey(fields[i]) = ServiceNameKey

\* resource.NewWithAttributes(semconv.SchemaURL, attrs...)
NewWithAttributes(schemaURL, attrs) == [schemaURL |-> schemaURL, attrs |-> attrs]

NoResource == [schemaURL |-> "", attrs |-> {}]

\* a nil *tracesdk.TracerProvider
NilProvider == [exp |-> NilExporter, resource |-> NoResource, processors |-> 0,
                status |-> "nil", handed |-> 0, expShutdowns |-> 0]

\* the resource tracerProvider builds
buildResource(defaultService) ==
    IF defaultService = "" \/ hasServiceEnvVar
    THEN NewWithAttributes(SchemaURL, {})
    ELSE NewWithAttributes(SchemaURL, {<<ServiceNameKey, defaultService>>})

\* tracerProvider: the error, the exporter createExporter constructed (if
\* any) and the provider, which holds its exporter behind `processors`
\* batch span processors. handed is how often the latest finished span is
\* handed to the exporter, expShutdowns how often the exporter was shut down.
tracerProvider(defaultService, exporter, otelEndpoint) ==
    LET r == createExporter(exporter, otelEndpoint)
    IN IF r.err # NoError
       THEN [err |-> r.err, exp |-> r.exp, tp |-> NilProvider]
       ELSE [err |-> NoError, exp |-> r.exp,
             tp |-> [exp |-> r.exp,
                     resource |-> buildResource(defaultService),
                     processors |-> 1,
                     status |-> "live", handed |-> 0, expShutdowns |-> 0]]

tracerProvider_tracego(defaultService, exporter) ==
    LET r == createExporter_tracego(exporter)
    IN IF r.err # NoError
       THEN [err |-> r.err, exp |-> r.exp, tp |-> NilProvider]
       ELSE [err |-> NoError, exp |-> r.exp,
             tp |-> [exp |-> r.exp,
                     resource |-> buildResource(defaultService),
                     processors |-> 2,
                     status |-> "live", handed |-> 0, expShutdowns |-> 0]]

---------------------------------------------------------------------------
\* autoprop.NewTextMapPropagator and tracePropagation

\* the propagators autoprop knows by name
Registry == {"tracecontext", "baggage", "b3", "b3multi", "jaeger", "xray", "ottrace"}

\* autoprop's parseEnv: [defined, members]; defined is FALSE when the
\* variable is unset or names no registered propagator (a nil propagator)
parseEnv(value) ==
    IF value = Unset THEN [defined |-> FALSE, members |-> {}]
    ELSE IF \E i \in 1..Len(value) : value[i] = "none"
    THEN [defined |-> TRUE, members |-> {}]
    ELSE LET known == {value[i] : i \in 1..Len(value)} \cap Registry
         IN [defined |-> known # {}, members |-> known]

\* autoprop.NewTextMapPropagator(props...): the environment wins; without it
\* no argument gives tracecontext+baggage, arguments give themselves
NewTextMapPropagator(props) ==
    LET e == parseEnv(getEnv("OTEL_PROPAGATORS"))
    IN IF e.defined THEN e.members
       ELSE IF props = {} THEN {"tracecontext", "baggage"}
       ELSE props

\* the propagator tracePropagation installs with otel.SetTextMapPropagator
tracePropagation == NewTextMapPropagator({"tracecontext"})

\* TextMapPropagator.Fields() of a propagator with these members
FieldsOf(member) ==
    CASE member = "tracecontext" -> {"traceparent", "tracestate"}
      [] member = "baggage" -> {"baggage"}
      [] member = "b3multi" ->
            {"x-b3-traceid", "x-b3-spanid", "x-b3-sampled", "x-b3-flags"}
      [] OTHER -> {member}

Fields(prop) == UNION {FieldsOf(m) : m \in prop}

---------------------------------------------------------------------------
\* TraceStart

Options == [DefaultService : {"", "svcA"},
            NoopTracerProvider : BOOLEAN,
            NoopPropagator : BOOLEAN]

\* func() {}
NoopClean == [kind |-> "noop", provider |-> 0]

\* a closure bound to the first provider of the process, not to its own
ShutdownClean_first(id) == [kind |-> "shutdown", provider |-> 1]

\* the closure that shuts provider id down under the 5 second deadline
ShutdownClean(id) == [kind |-> "shutdown", provider |-> id]

IdleClosure == [state |-> "idle", result |-> "none"]

CanStart(i) ==
    /\ process = "running"
    /\ pc = "idle"
    /\ impl = i
    /\ Len(calls) < MaxStarts

\* what a call leaves to its caller
Returned(options, err, tracer, clean) ==
    /\ calls' = Append(calls, [options |-> options, err |-> err,
                               tracer |-> tracer, clean |-> clean])
    /\ closures' = Append(closures, IdleClosure)

\* the exporter a call constructed, if any, joins the exporters
Constructed(exp) ==
    exporters' = IF exp = NilExporter THEN exporters ELSE Append(exporters, exp)

\* TraceStart without the no-op branch
noopTracerProvider_never(options) == FALSE

\* if options.NoopTracerProvider
noopTracerProvider(options) == options.NoopTracerProvider

\* TraceStart calling tracePropagation whatever the options say
runPropagation_always(options) == TRUE

\* if !options.NoopPropagator
runPropagation(options) == ~options.NoopPropagator

\* tracePropagation(debug), when run is true: otel.SetTextMapPropagator(prop)
Propagation(run) ==
    IF run
    THEN globalProp' = tracePropagation /\ propSets' = propSets + 1
    ELSE UNCHANGED <<globalProp, propSets>>

\* TraceStart(options TraceOptions) of src/unnamed/part_000
TraceStart(options) ==
    /\ CanStart("part_000")
    /\ LET exporter == getEnv("OTELCONFIG_EXPORTER")
           otelEndpoint == getEnv("OTEL_EXPORTER_OTLP_ENDPOINT")
           r == tracerProvider(options.DefaultService, exporter, otelEndpoint)
           id == Len(providers) + 1
       IN IF noopTracerProvider(options)
          THEN /\ globalTP' = NoopTP
               /\ Propagation(runPropagation(options))
               /\ Returned(options, NoError, [provider |-> NoopTP, name |-> lib],
                           NoopClean)
               /\ UNCHANGED <<exporters, providers>>
          ELSE IF r.err # NoError
          THEN /\ Constructed(r.exp)
               /\ Returned(options, r.err, NilTracer, NoopClean)
               /\ UNCHANGED <<globalTP, globalProp, propSets, providers>>
          ELSE /\ Constructed(r.exp)
               /\ providers' = Append(providers, r.tp)
               /\ globalTP' = SdkTP(id)
               /\ Propagation(runPropagation(options))
               /\ Returned(options, NoError, [provider |-> SdkTP(id), name |-> lib],
                           ShutdownClean(id))
    /\ UNCHANGED <<impl, env, process, pc, running, elapsed>>

\* TraceStart(defaultService string, debug bool) of src/oteltrace/trace.go;
\* it has no options: tracing and propagation are always on
TraceStart_tracego(defaultService) ==
    /\ CanStart("trace.go")
    /\ LET options == [DefaultService |-> defaultService,
                       NoopTracerProvider |-> FALSE,
                       NoopPropagator |-> FALSE]
           exporter == getEnv("OTELCONFIG_EXPORTER")
           r == tracerProvider_tracego(defaultService, exporter)
           id == Len(providers) + 1
       IN IF r.err # NoError
          THEN /\ Constructed(r.exp)
               /\ Returned(options, r.err, NilTracer, NoopClean)
               /\ UNCHANGED <<globalTP, globalProp, propSets, providers>>
          ELSE /\ Constructed(r.exp)
               /\ providers' = Append(providers, r.tp)
               /\ globalTP' = SdkTP(id)
               /\ Propagation(TRUE)
               /\ Returned(options, NoError, [provider |-> SdkTP(id), name |-> lib],
                           ShutdownClean(id))
    /\ UNCHANGED <<impl, env, process, pc, running, elapsed>>

---------------------------------------------------------------------------
\* The closure TraceStart returns

\* a closure that hands p.Shutdown a context without a deadline
ctx2Done_never(e) == FALSE

\* ctx2 of the closure, context.WithTimeout(ctx, time.Second*5): done once
\* the timeout has passed since the closure was invoked
ctx2Done(e) == e >= ShutdownTimeout

\* the caller invokes the closure of call i
InvokeClean(i) ==
    /\ process = "running"
    /\ pc = "idle"
    /\ i \in 1..Len(calls)
    /\ IF calls[i].clean.kind = "noop"
       THEN /\ closures' = [closures EXCEPT ![i] =
                               [state |-> "returned", result |-> "noop"]]
            /\ UNCHANGED <<pc, running, elapsed>>
       ELSE /\ closures' = [closures EXCEPT ![i] =
                               [state |-> "running", result |-> "none"]]
            /\ pc' = "clean"
            /\ running' = i
            /\ elapsed' = 0
    /\ UNCHANGED <<impl, env, process, globalTP, globalProp, exporters,
                   providers, calls, propSets>>

\* a closure that drops the error of p.Shutdown
cleanOutcome_ignoreErr(err) == "returned"

\* what the closure does with the error p.Shutdown(ctx2) returned
cleanOutcome(err) == IF err # "nil" THEN "fatal" ELSE "returned"

\* p.Shutdown(ctx2) returns err, and the closure ends
ShutdownEnds(err) ==
    LET i == running
        p == calls[i].clean.provider
    IN /\ closures' = [closures EXCEPT ![i] =
                          [state |-> cleanOutcome(err), result |-> err]]
       /\ process' = IF cleanOutcome(err) = "fatal" THEN "fatal" ELSE process
       /\ providers' = IF err = "nil" /\ providers[p].status = "live"
                       THEN [providers EXCEPT
                               ![p].status = "shutdown",
                               ![p].expShutdowns = providers[p].processors]
                       ELSE providers
       /\ pc' = "idle"
       /\ running' = 0
       /\ elapsed' = 0
       /\ UNCHANGED <<impl, env, globalTP, globalProp, exporters, calls, propSets>>

\* the provider's flush and close completes, with or without an error
ShutdownReturns(err) ==
    /\ pc = "clean"
    /\ err \in {"nil", "error"}
    /\ ShutdownEnds(err)

\* the deadline of ctx2 passes first: p.Shutdown(ctx2) returns ctx2.Err()
DeadlineExceeded ==
    /\ pc = "clean"
    /\ ctx2Done(elapsed)
    /\ ShutdownEnds("context deadline exceeded")

\* a second passes while the closure waits for p.Shutdown(ctx2)
Tick ==
    /\ pc = "clean"
    /\ ~ctx2Done(elapsed)
    /\ elapsed < ClockCap
    /\ elapsed' = elapsed + 1
    /\ UNCHANGED <<impl, env, process, globalTP, globalProp, exporters,
                   providers, calls, closures, propSets, pc, running>>

---------------------------------------------------------------------------
\* Spans

\* the caller starts and ends a span with the tracer of call i: every batch
\* span processor of a live SDK provider takes the finished span and hands
\* it to its exporter (the no-op tracer's spans are inert)
SpanEnd(i) ==
    /\ process = "running"
    /\ pc = "idle"
    /\ i \in 1..Len(calls)
    /\ calls[i].tracer.provider.kind = "sdk"
    /\ LET p == calls[i].tracer.provider.id
       IN /\ providers[p].status = "live"
          /\ providers' = [providers EXCEPT ![p].handed = providers[p].processors]
    /\ UNCHANGED <<impl, env, process, globalTP, globalProp, exporters, calls,
                   closures, propSets, pc, running, elapsed>>

---------------------------------------------------------------------------
\* Specifications

InitWith(T, E, S, A, P) ==
    /\ impl \in Impls
    /\ env \in [OTELCONFIG_EXPORTER : T,
                 OTEL_EXPORTER_OTLP_ENDPOINT : E,
                 OTEL_SERVICE_NAME : S,
                 OTEL_RESOURCE_ATTRIBUTES : A,
                 OTEL_PROPAGATORS : P]
    /\ process = "running"
    /\ globalTP = DefaultTP
    /\ globalProp = {}
    /\ exporters = <<>>
    /\ providers = <<>>
    /\ calls = <<>>
    /\ closures = <<>>
    /\ propSets = 0
    /\ pc = "idle"
    /\ running = 0
    /\ elapsed = 0

Start ==
    \/ \E options \in Options : TraceStart(options)
    \/ \E defaultService \in {"", "svcA"} : TraceStart_tracego(defaultService)

Clean ==
    \/ \E i \in 1..MaxStarts : InvokeClean(i)
    \/ \E err \in {"nil", "error"} : ShutdownReturns(err)
    \/ DeadlineExceeded
    \/ Tick

Next == Start \/ Clean

\* a process that calls TraceStart once
StartOnce ==
    \/ \E options \in Options : calls = <<>> /\ TraceStart(options)
    \/ \E defaultService \in {"", "svcA"} :
          calls = <<>> /\ TraceStart_tracego(defaultService)

NextOnce == StartOnce \/ Clean

\* the whole life of a process, in a few environments
Init ==
    InitWith({"grpc", "jaeger", "zipkin"}, {<<>>, <<Host>>, <<Host, "/", BadEscape>>},
             {<<>>}, {<<>>}, {Unset, <<"b3multi">>})

Spec == Init /\ [][Next]_vars

\* time passes and the timer of ctx2 fires
Fairness == WF_vars(Tick) /\ WF_vars(DeadlineExceeded)

InitShutdown == InitWith({"stdout", "zipkin"}, {<<>>}, {<<>>}, {<<>>}, {Unset})

LiveSpec == InitShutdown /\ [][Next]_vars /\ Fairness

\* exporter resolution over every token and endpoint override
InitExporter == InitWith(Tokens, Endpoints, {<<>>}, {<<>>}, {Unset})

SpecExporter == InitExporter /\ [][NextOnce]_vars

\* the resource over every service name override and attribute list
InitResource == InitWith({"stdout"}, {<<>>}, SvcNames, ResourceAttrs, {Unset})

SpecResource == InitResource /\ [][StartOnce]_vars

\* a process that calls TraceStart once, creates spans and shuts down
NextSpans == StartOnce \/ Clean \/ \E i \in 1..MaxStarts : SpanEnd(i)

InitSpans ==
    InitWith({"stdout", "grpc", "jaeger", "zipkin"}, {<<>>, <<Host>>}, {<<>>}, {<<>>},
             {Unset})

SpecSpans == InitSpans /\ [][NextSpans]_vars

\* propagation over every propagator list
InitPropagation == InitWith({"stdout", "zipkin"}, {<<>>}, {<<>>}, {<<>>}, PropLists)

SpecPropagation == InitPropagation /\ [][StartOnce]_vars

---------------------------------------------------------------------------
\* Claims

\* the calls that asked for tracing
Enabled(i) == ~calls[i].options.NoopTracerProvider

\* the calls that succeeded
Succeeded(i) == calls[i].err = NoError

\* the SDK provider call i built
ProviderOf(i) == providers[calls[i].tracer.provider.id]

\* the gRPC-transport OTLP exporter
GrpcExporter == [kind |-> "otlp-grpc", endpoint |-> AmbientEndpoint]

Built(i) == Enabled(i) /\ Succeeded(i)

\* C1: with tracing enabled and an exporter token outside "", "grpc", "http",
\* "jaeger", "stdout", TraceStart returns the error naming exactly that token,
\* a nil tracer, and neither an exporter nor a provider was constructed.
C1_UnrecognizedTokenFails ==
    \A i \in 1..Len(calls) :
        (Enabled(i) /\ env.OTELCONFIG_EXPORTER \notin RecognizedTokens) =>
            /\ calls[i].err = [kind |-> "unrecognized exporter type",
                               text |-> env.OTELCONFIG_EXPORTER]
            /\ calls[i].tracer = NilTracer
            /\ exporters = <<>>
            /\ providers = <<>>

C1_Witness ==
    /\ impl = "part_000"
    /\ env.OTELCONFIG_EXPORTER = "GRPC"
    /\ Len(calls) = 1
    /\ Enabled(1)
    /\ calls[1].err.kind = "unrecognized exporter type"

\* C2 (as claimed): with tracing enabled, the tokens "" and "grpc" both
\* resolve, to the same gRPC OTLP exporter, and "http" resolves to an HTTP
\* OTLP exporter that differs from it.
C2_EmptyIsGrpc ==
    \A i \in 1..Len(calls) :
        Enabled(i) =>
            /\ env.OTELCONFIG_EXPORTER \in {"", "grpc"} =>
                  /\ Succeeded(i)
                  /\ ProviderOf(i).exp = GrpcExporter
            /\ env.OTELCONFIG_EXPORTER = "http" =>
                  /\ Succeeded(i)
                  /\ ProviderOf(i).exp.kind = "otlp-http"
                  /\ ProviderOf(i).exp # GrpcExporter

\* C2 holds of the implementation with TraceOptions
C2_EmptyIsGrpc_part000 == impl = "part_000" => C2_EmptyIsGrpc

\* the resource of call i carries defaultService as its service name
EmbedsDefault(i) ==
    ProviderOf(i).resource =
        [schemaURL |-> SchemaURL,
         attrs |-> {<<ServiceNameKey, calls[i].options.DefaultService>>}]

\* the resource of call i carries the schema identifier alone
SchemaOnly(i) == ProviderOf(i).resource = [schemaURL |-> SchemaURL, attrs |-> {}]

\* the comma-separated entries of an attribute list, as index pairs
IsEntry(s, a, b) ==
    /\ a <= b
    /\ \A k \in a..b : s[k] # ","
    /\ a = 1 \/ s[a - 1] = ","
    /\ b = Len(s) \/ s[b + 1] = ","

\* the list has an entry whose key, the text before its first `=` or the
\* whole entry without one, is exactly service.name
HasServiceNameKeyEntry(s) ==
    \E a, b \in 1..Len(s) :
        IsEntry(s, a, b) /\ s[a] = "service.name" /\ (b = a \/ s[a + 1] = "=")

OnlySpaces(s) == \A k \in 1..Len(s) : s[k] = " "

\* C3 (as claimed): the resource embeds defaultService iff defaultService is
\* non-empty, OTEL_SERVICE_NAME is not non-empty and OTEL_RESOURCE_ATTRIBUTES
\* has no service.name entry; otherwise it carries the schema alone. (An
\* entry `service.name` without `=` is read here as a service.name entry,
\* as the code reads it.)
C3_Original ==
    \A i \in 1..Len(calls) :
        Built(i) =>
            IF /\ calls[i].options.DefaultService # ""
               /\ env.OTEL_SERVICE_NAME = <<>>
               /\ ~HasServiceNameKeyEntry(env.OTEL_RESOURCE_ATTRIBUTES)
            THEN EmbedsDefault(i)
            ELSE SchemaOnly(i)

\* C3 (amended): the resource embeds defaultService iff defaultService is
\* non-empty, OTEL_SERVICE_NAME is empty or holds only whitespace, and no
\* comma-separated entry of OTEL_RESOURCE_ATTRIBUTES has the key service.name
\* (with or without a `=` behind it); otherwise it carries the schema alone.
C3_ServiceNamePrecedence ==
    \A i \in 1..Len(calls) :
        Built(i) =>
            IF /\ calls[i].options.DefaultService # ""
               /\ OnlySpaces(env.OTEL_SERVICE_NAME)
               /\ ~HasServiceNameKeyEntry(env.OTEL_RESOURCE_ATTRIBUTES)
            THEN EmbedsDefault(i)
            ELSE SchemaOnly(i)

\* a whitespace-only override and a list of two entries, neither with the
\* key service.name: defaultService is embedded
C3_Witness ==
    /\ Len(calls) = 1
    /\ Built(1)
    /\ env.OTEL_SERVICE_NAME = <<" ", " ">>
    /\ env.OTEL_RESOURCE_ATTRIBUTES = <<"x", "service.name", ",", "x">>
    /\ calls[1].options.DefaultService = "svcA"
    /\ EmbedsDefault(1)

\* C4: a call with NoopTracerProvider returns no error, the no-op tracer and
\* the no-op closure whatever the exporter token and the endpoint override
\* are; nothing is constructed, and invoking the closure returns at once:
\* it never waits on a provider and never ends the process.
C4_NoopStart ==
    \A i \in 1..Len(calls) :
        calls[i].options.NoopTracerProvider =>
            /\ calls[i].err = NoError
            /\ calls[i].tracer = [provider |-> NoopTP, name |-> lib]
            /\ calls[i].clean = NoopClean
            /\ exporters = <<>>
            /\ providers = <<>>
            /\ closures[i] \in {IdleClosure, [state |-> "returned", result |-> "noop"]}
            /\ pc = "idle"
            /\ process = "running"

\* the no-op closure was invoked, under a malformed endpoint override
C4_Witness ==
    /\ Len(calls) = 1
    /\ calls[1].options.NoopTracerProvider
    /\ env.OTELCONFIG_EXPORTER = "jaeger"
    /\ env.OTEL_EXPORTER_OTLP_ENDPOINT = <<Host, "/", BadEscape>>
    /\ closures[1].state = "returned"

\* C5: an executing shutdown closure is never past its 5 second deadline,
\* and it always ends, also when the provider's Shutdown never completes
\* by itself.
C5_ShutdownBounded ==
    /\ [](pc = "clean" => elapsed <= ShutdownTimeout)
    /\ ((pc = "clean") ~> (pc = "idle"))

\* a closure that the deadline ended, fatally
C5_Witness ==
    \E i \in 1..Len(calls) :
        /\ calls[i].clean.kind = "shutdown"
        /\ closures[i] = [state |-> "fatal", result |-> "context deadline exceeded"]
        /\ process = "fatal"

\* C6: when a shutdown closure ends, it returns to its caller exactly if
\* p.Shutdown returned nil within the deadline; on an error or on the
\* deadline it ends the process.
C6_FatalUnlessFlushed ==
    [][(pc = "clean" /\ pc' = "idle") =>
          IF closures'[running].result = "nil" /\ elapsed <= ShutdownTimeout
          THEN closures'[running].state = "returned" /\ process' = "running"
          ELSE closures'[running].state = "fatal" /\ process' = "fatal"]_vars

\* p.Shutdown returned an error and the process ended
C6_Witness ==
    \E i \in 1..Len(calls) :
        /\ closures[i] = [state |-> "fatal", result |-> "error"]
        /\ process = "fatal"

\* the step is a TraceStart call
IsStart == Len(calls') = Len(calls) + 1

NewCall == calls'[Len(calls')]

\* C7: a TraceStart call that returns an error returns a nil tracer and the
\* no-op closure, and leaves the global provider, the global propagator,
\* the exporters and the providers as they were.
C7_FailedStartChangesNothing ==
    [][(IsStart /\ NewCall.err # NoError) =>
          /\ NewCall.tracer = NilTracer
          /\ NewCall.clean = NoopClean
          /\ globalTP' = globalTP
          /\ globalProp' = globalProp
          /\ propSets' = propSets
          /\ exporters' = exporters
          /\ providers' = providers]_vars

\* a failed call after one that installed a provider and a propagator
C7_Witness ==
    /\ Len(calls) = 2
    /\ Succeeded(1)
    /\ ~Succeeded(2)
    /\ globalTP = NoopTP
    /\ globalProp # {}

RECURSIVE CollapseSlashes(_)
\* s with every run of slashes made one slash
CollapseSlashes(s) ==
    IF Len(s) < 2 THEN s
    ELSE IF s[1] = "/" /\ s[2] = "/" THEN CollapseSlashes(Tail(s))
    ELSE <<Head(s)>> \o CollapseSlashes(Tail(s))

\* the collector endpoint the claim derives from a non-empty override: the
\* override without doubled or trailing slashes, one slash, api/traces
OneSlashJoin(e) == TrimRight(CollapseSlashes(e), "/") \o ApiTraces

\* C8 (as claimed): for "jaeger", an empty override gives the built-in
\* collector endpoint, an override that parses gives the override and
\* /api/traces with one slash between them, one that does not parse gives an
\* error and no exporter; for "stdout" the override changes nothing.
C8_JaegerEndpoint ==
    \A i \in 1..Len(calls) :
        LET e == env.OTEL_EXPORTER_OTLP_ENDPOINT
        IN Enabled(i) =>
            /\ env.OTELCONFIG_EXPORTER = "jaeger" =>
                  IF e = <<>>
                  THEN /\ Succeeded(i)
                       /\ ProviderOf(i).exp =
                             [kind |-> "jaeger", endpoint |-> DefaultJaegerEndpoint]
                  ELSE IF urlParseOk(e)
                  THEN /\ Succeeded(i)
                       /\ ProviderOf(i).exp =
                             [kind |-> "jaeger", endpoint |-> OneSlashJoin(e)]
                  ELSE ~Succeeded(i) /\ exporters = <<>>
            /\ env.OTELCONFIG_EXPORTER = "stdout" =>
                  /\ Succeeded(i)
                  /\ ProviderOf(i).exp = [kind |-> "stdout", endpoint |-> NoEndpoint]

\* C8 of the implementation with TraceOptions
C8_JaegerEndpoint_part000 == impl = "part_000" => C8_JaegerEndpoint

\* the calls that were to configure propagation
Propagating(i) == Succeeded(i) /\ ~calls[i].options.NoopPropagator

\* C9 (as claimed): with OTEL_PROPAGATORS unset the installed propagator is
\* the tracecontext,baggage composite; with `none` it has no fields.
C9_DefaultPropagators ==
    \A i \in 1..Len(calls) :
        Propagating(i) =>
            /\ env.OTEL_PROPAGATORS = Unset =>
                  globalProp = {"tracecontext", "baggage"}
            /\ env.OTEL_PROPAGATORS = <<"none">> => Fields(globalProp) = {}

\* the `none` half of C9
C9_NoneHasNoFields ==
    \A i \in 1..Len(calls) :
        (Propagating(i) /\ env.OTEL_PROPAGATORS = <<"none">>) =>
            Fields(globalProp) = {}

\* C10: a TraceStart call sets the global propagator exactly if it succeeds
\* and NoopPropagator is false, with and without NoopTracerProvider; with
\* NoopPropagator true it leaves the global propagator as it was.
C10_PropagationIffEnabled ==
    [][IsStart =>
          IF NewCall.err = NoError /\ ~NewCall.options.NoopPropagator
          THEN propSets' = propSets + 1 /\ globalProp' = tracePropagation
          ELSE propSets' = propSets /\ globalProp' = globalProp]_vars

\* a no-op-tracer call with NoopPropagator after a call that set the
\* propagator: it is still the one the first call installed
C10_Witness ==
    /\ Len(calls) = 2
    /\ Succeeded(1) /\ ~calls[1].options.NoopPropagator
    /\ Succeeded(2) /\ calls[2].options.NoopPropagator
    /\ calls[2].options.NoopTracerProvider
    /\ propSets = 1
    /\ globalProp = {"b3multi"}

\* the calls that succeeded, and the latest of them
SucceededCalls == {i \in 1..Len(calls) : Succeeded(i)}

LastSucceeded == CHOOSE i \in SucceededCalls : \A j \in SucceededCalls : j <= i

\* the tracer and the closure of call i belong to one SDK provider of its own
OwnProvider(i) ==
    /\ calls[i].tracer.provider.kind = "sdk"
    /\ calls[i].tracer.provider.id \in 1..Len(providers)
    /\ calls[i].tracer.name = lib
    /\ calls[i].clean.kind = "shutdown"
    /\ calls[i].clean.provider = calls[i].tracer.provider.id
    /\ \A j \in 1..Len(calls) :
          (j # i /\ Built(j)) => calls[j].tracer.provider # calls[i].tracer.provider

\* C11: a successful start with tracing enabled installs as global provider
\* the provider its tracer (named lib) comes from and its closure shuts down;
\* over several calls each closure changes only the provider of its own
\* call, and the global provider is that of the latest successful call.
C11_SameProvider ==
    /\ [](\A i \in 1..Len(calls) : Built(i) => OwnProvider(i))
    /\ [](SucceededCalls # {} => globalTP = calls[LastSucceeded].tracer.provider)
    /\ [][(IsStart /\ NewCall.err = NoError /\ ~NewCall.options.NoopTracerProvider) =>
             /\ globalTP' = NewCall.tracer.provider
             /\ NewCall.tracer.provider = SdkTP(Len(providers'))
             /\ Len(providers') = Len(providers) + 1]_vars
    /\ [][(pc = "clean" /\ pc' = "idle") =>
             \A q \in 1..Len(providers) :
                 providers'[q] # providers[q] =>
                     q = calls[running].tracer.provider.id]_vars

\* two providers; the closure of the first call has shut the first one
\* down, the second is live and is the global one
C11_Witness ==
    /\ Len(calls) = 2
    /\ Built(1) /\ Built(2)
    /\ closures[1] = [state |-> "returned", result |-> "nil"]
    /\ providers[1].status = "shutdown"
    /\ providers[2].status = "live"
    /\ globalTP = SdkTP(2)

\* C12 (as claimed): every provider holds its exporter behind exactly one
\* batch span processor, so a finished span is handed to the exporter at
\* most once and a provider that was shut down has shut its exporter down
\* exactly once.
C12_OneBatchProcessor ==
    \A q \in 1..Len(providers) :
        /\ providers[q].processors = 1
        /\ providers[q].handed <= 1
        /\ providers[q].status = "shutdown" => providers[q].expShutdowns = 1

\* C12 of the implementation with TraceOptions
C12_OneBatchProcessor_part000 == impl = "part_000" => C12_OneBatchProcessor

\* with src/oteltrace/trace.go a finished span reaches the exporter twice
\* and the exporter is shut down twice
C12_TwiceReached ==
    \E q \in 1..Len(providers) :
        providers[q].handed = 2 /\ providers[q].expShutdowns = 2

====
